---------------------------- MODULE Spec2Model ----------------------------
(***************************************************************************)
(* Lagged coherence (neurodsp/laggedcoherence.py).                         *)
(*                                                                         *)
(* lagged_coherence builds a frequency sequence with np.arange, calls      *)
(* _lagged_coherence_1freq once per frequency and returns the per-         *)
(* frequency values or their mean.  _lagged_coherence_1freq cuts the       *)
(* signal into non-overlapping windows, takes one Hann-tapered Fourier     *)
(* coefficient per window and combines adjacent coefficients.              *)
(*                                                                         *)
(* Numbers.  Frequencies, rates and cycle counts are integers.  Complex    *)
(* numbers are pairs <<re, im>> of integers.  The Hann taper is held in    *)
(* quarters (4*w[n]) and the DFT twiddle factors are fourth roots of       *)
(* unity, so every Fourier coefficient is computed exactly; the inputs of  *)
(* the driver are drawn from the parameters for which that is possible     *)
(* (window lengths 1, 2 and 4).  A float result is a record                *)
(* [nan, v]: NaN, or v = floor(Unit * value).                              *)
(***************************************************************************)
EXTENDS Integers, Sequences, FiniteSets

VARIABLES
    x, f_range, s_rate, n_cycles, f_step, return_spectrum, \* arguments
    pc,              \* position of the call
    freqs, lcs, ind, \* lagged_coherence: locals
    f, n_samps, chunks, fourier_f_idx, fourier_coes, lcs_num, lcs_denom2,
                     \* _lagged_coherence_1freq: argument f and locals
    ret,             \* what the call returned
    calls            \* history: arguments of each estimator invocation

vars == << x, f_range, s_rate, n_cycles, f_step, return_spectrum, pc,
           freqs, lcs, ind, f, n_samps, chunks, fourier_f_idx,
           fourier_coes, lcs_num, lcs_denom2, ret, calls >>

args == << x, f_range, s_rate, n_cycles, f_step, return_spectrum >>
frame == << f, n_samps, chunks, fourier_f_idx, fourier_coes, lcs_num,
            lcs_denom2 >>

---------------------------------------------------------------------------
(* Bounds of the model *)

MaxLen == 8       \* longest signal
MaxLow == 2       \* largest lower end of f_range in a sweep
MaxFreq == 4      \* largest upper end of f_range in a sweep
MaxStep == 3      \* largest f_step
Unit == 100       \* a float v is held as floor(Unit * v)
MaxRate == 6      \* largest sampling rate of a single-frequency call
MaxCycles == 3    \* largest n_cycles of a single-frequency call
MaxBinRate == 12  \* largest sampling rate of a bin selection
MaxChunkLen == 9  \* largest chunk length of a windowing call

SampleVals == {0, 1}

RECURSIVE SeqsOf(_, _)
SeqsOf(S, n) ==
    IF n = 0 THEN { << >> }
    ELSE { Append(s, e) : s \in SeqsOf(S, n - 1), e \in S }

SignalsOver(S, lo, hi) == UNION { SeqsOf(S, n) : n \in lo..hi }

---------------------------------------------------------------------------
(* Arithmetic helpers *)

Abs(a) == IF a < 0 THEN -a ELSE a

\* np.floor(a / b) and np.ceil(a / b) for integers a, b with b # 0
FloorDiv(a, b) == IF b < 0 THEN (-a) \div (-b) ELSE a \div b
CeilDiv(a, b) == -FloorDiv(-a, b)

RECURSIVE IsqrtFrom(_, _)
IsqrtFrom(y, r) == IF (r + 1) * (r + 1) > y THEN r ELSE IsqrtFrom(y, r + 1)
Isqrt(y) == IsqrtFrom(y, 0)

NaN == [nan |-> TRUE, v |-> 0]
Float(v) == [nan |-> FALSE, v |-> v]

RECURSIVE SumTo(_, _)
SumTo(g, n) == IF n = 0 THEN 0 ELSE g[n] + SumTo(g, n - 1)

\* complex numbers as <<re, im>>
CMul(a, b) == << a[1] * b[1] - a[2] * b[2], a[1] * b[2] + a[2] * b[1] >>
CConj(a) == << a[1], -a[2] >>
CAdd(a, b) == << a[1] + b[1], a[2] + b[2] >>
CAbs2(a) == a[1] * a[1] + a[2] * a[2]

---------------------------------------------------------------------------
(* lagged_coherence, line 44: np.arange(start, stop, step), step > 0 *)

ArangeLen(start, stop, step) ==
    IF stop > start THEN CeilDiv(stop - start, step) ELSE 0

Arange(start, stop, step) ==
    [i \in 1..ArangeLen(start, stop, step) |-> start + (i - 1) * step]

Freqs(range, step) == Arange(range[1], range[2] + step, step)

(* lagged_coherence, line 48: np.zeros(n_freqs) *)
Zeros(n) == [i \in 1..n |-> Float(0)]

\* Mean with a fault: the mean of the values that are not NaN (np.nanmean)
MeanIgnoringNaN(a) ==
    LET good == {i \in 1..Len(a) : ~a[i].nan}
    IN  IF good = {} THEN NaN
        ELSE Float(SumTo([i \in 1..Len(a) |->
                             IF a[i].nan THEN 0 ELSE a[i].v], Len(a))
                   \div Cardinality(good))

(* lagged_coherence, line 58: np.mean(lcs); NaN for an empty array and     *)
(* whenever an element is NaN                                              *)
Mean(a) ==
    IF Len(a) = 0 \/ (\E i \in 1..Len(a) : a[i].nan) THEN NaN
    ELSE Float(SumTo([i \in 1..Len(a) |-> a[i].v], Len(a)) \div Len(a))

---------------------------------------------------------------------------
(* _lagged_coherence_1freq, line 66: int(np.ceil(n_cycles * s_rate / f)).  *)
(* f = 0 divides by zero: the quotient is inf or nan and int() raises.     *)

NSampsRaises(n, s, freq) == freq = 0

NSamps(n, s, freq) == CeilDiv(n * s, freq)

(* _nonoverlapping_chunks, lines 91-92.  N = 0 raises ZeroDivisionError    *)
(* at line 91; N < 0 makes Nchunks negative (len(x) >= 1) and reshape      *)
(* raises at line 92.                                                      *)

ChunksRaises(sig, N) == N <= 0

NChunks(sig, N) == FloorDiv(Len(sig), N)

\* NonoverlappingChunks with a fault: the reshape fills column by column
NonoverlappingChunksColumnMajor(sig, N) ==
    LET Nchunks == NChunks(sig, N)
        head == SubSeq(sig, 1, Nchunks * N)
    IN  [i \in 1..Nchunks |-> [j \in 1..N |-> head[(j - 1) * Nchunks + i]]]

NonoverlappingChunks(sig, N) ==
    LET Nchunks == NChunks(sig, N)
        head == SubSeq(sig, 1, Nchunks * N)
    IN  [i \in 1..Nchunks |-> [j \in 1..N |-> head[(i - 1) * N + j]]]

(* np.fft.fftfreq(n, d), line 72: entry j (0-based) is j/(n*d) for         *)
(* j <= (n-1)//2 and (j-n)/(n*d) above; d = 1/s_rate.  FftFreqNum is the   *)
(* signed bin number, the frequency is FftFreqNum * s_rate / n.            *)

\* FftFreqNum with a fault: the grid in centred (fftshift) order
FftFreqNumShifted(N, j) == j - (N \div 2)

FftFreqNum(N, j) == IF j < ((N - 1) \div 2) + 1 THEN j ELSE j - N

\* |fourier_f[j] - f| * N
BinDist(N, s, freq, j) == Abs(FftFreqNum(N, j) * s - freq * N)

(* np.argmin, line 73: the first index of the minimum *)
Argmin(d, N) ==
    CHOOSE j \in 0..(N - 1) :
        /\ \A k \in 0..(N - 1) : d[j] <= d[k]
        /\ \A k \in 0..(j - 1) : d[k] > d[j]

FourierFIdx(N, s, freq) ==
    Argmin([j \in 0..(N - 1) |-> BinDist(N, s, freq, j)], N)

(* signal.hanning(N), line 71, symmetric: w[n] = 0.5 - 0.5*cos(2*pi*n/(N-1))*)
(* and [1] for N = 1.  TwoCos(j, M) = 2*cos(2*pi*j/M), exact for the M     *)
(* where it is rational.  Hanning is 4*w.                                  *)

TwoCos(j, M) ==
    CASE M = 1 -> 2
      [] M = 2 -> << 2, -2 >>[(j % 2) + 1]
      [] M = 3 -> << 2, -1, -1 >>[(j % 3) + 1]
      [] M = 4 -> << 2, 0, -2, 0 >>[(j % 4) + 1]
      [] M = 6 -> << 2, 1, -1, -2, -1, 1 >>[(j % 6) + 1]

Hanning(N) ==
    IF N = 1 THEN << 4 >>
    ELSE [m \in 1..N |-> 2 - TwoCos(m - 1, N - 1)]

(* exp(-2*pi*i*k*n/N), exact when the angle is a multiple of a quarter turn*)
Twiddle(N, k, n) ==
    LET q == (4 * ((k * n) % N)) \div N
    IN  << << 1, 0 >>, << 0, -1 >>, << -1, 0 >>, << 0, 1 >> >>[q + 1]

ExactLen(N, k) ==
    /\ (N - 1) \in {0, 1, 2, 3, 4, 6}
    /\ \A n \in 0..(N - 1) : (4 * ((k * n) % N)) % N = 0

(* np.fft.fft(c * hann_window)[k], lines 76-77 (in quarters) *)
RECURSIVE DftSum(_, _, _, _)
DftSum(c, w, k, m) ==
    IF m = 0 THEN << 0, 0 >>
    ELSE LET t == Twiddle(Len(c), k, m - 1)
             a == c[m] * w[m]
         IN  CAdd(DftSum(c, w, k, m - 1), << a * t[1], a * t[2] >>)

FourierCoef(c, k) == DftSum(c, Hanning(Len(c)), k, Len(c))

FourierCoes(ch, k) == [i \in 1..Len(ch) |-> FourierCoef(ch[i], k)]

(* lines 80-82: the loop over range(C - 1) *)
RECURSIVE LcsNumLoop(_, _)
LcsNumLoop(F, n) ==
    IF n <= 0 THEN << 0, 0 >>
    ELSE CAdd(LcsNumLoop(F, n - 1), CMul(F[n], CConj(F[n + 1])))

\* LcsNum with a fault: the loop stops one pair early
LcsNumShort(F) == LcsNumLoop(F, Len(F) - 2)

LcsNum(F) == LcsNumLoop(F, Len(F) - 1)

(* lines 83-84: the square of lcs_denom,                                   *)
(* sum(|F[:-1]|^2) * sum(|F[1:]|^2)                                        *)
RECURSIVE Abs2Sum(_, _, _)
Abs2Sum(F, lo, hi) ==
    IF lo > hi THEN 0 ELSE CAbs2(F[hi]) + Abs2Sum(F, lo, hi - 1)

\* LcsDenom2 with a fault: both sums run over every coefficient
LcsDenom2Unsliced(F) == Abs2Sum(F, 1, Len(F)) * Abs2Sum(F, 1, Len(F))

LcsDenom2(F) == Abs2Sum(F, 1, Len(F) - 1) * Abs2Sum(F, 2, Len(F))

(* line 85: np.abs(lcs_num / lcs_denom); 0/0 is NaN *)
AbsRatio(num, denom2) ==
    IF denom2 = 0 THEN NaN
    ELSE Float(Isqrt((CAbs2(num) * Unit * Unit) \div denom2))

(* _lagged_coherence_1freq as a function of its arguments, for an f that   *)
(* raises nothing                                                          *)
LaggedCoherence1Freq(sig, freq, s, n) ==
    LET N == NSamps(n, s, freq)
        F == FourierCoes(NonoverlappingChunks(sig, N), FourierFIdx(N, s, freq))
    IN  AbsRatio(LcsNum(F), LcsDenom2(F))

---------------------------------------------------------------------------
(* The call lagged_coherence(x, f_range, s_rate, n_cycles, f_step,         *)
(* return_spectrum)                                                        *)

\* every window of the sweep has an exact taper and exact twiddle factors
ExactSweep(r, st, s, n) ==
    \A i \in 1..Len(Freqs(r, st)) :
        LET freq == Freqs(r, st)[i]
            N == IF freq = 0 THEN 0 ELSE NSamps(n, s, freq)
        IN  N > 0 => ExactLen(N, FourierFIdx(N, s, freq))

NoFrame ==
    /\ f = 0
    /\ n_samps = 0
    /\ chunks = << >>
    /\ fourier_f_idx = 0
    /\ fourier_coes = << >>
    /\ lcs_num = << 0, 0 >>
    /\ lcs_denom2 = 0

Start ==
    /\ pc = "arange"
    /\ freqs = << >>
    /\ lcs = << >>
    /\ ind = 0
    /\ NoFrame
    /\ ret = [kind |-> "none"]
    /\ calls = << >>

\* a sweep over a frequency range, at sampling rate 4 (or the invalid 0)
Init ==
    /\ f_range \in (0..MaxLow) \X (1..MaxFreq)
    /\ f_step \in 1..MaxStep
    /\ s_rate \in {0, 4}
    /\ n_cycles = 1
    /\ ExactSweep(f_range, f_step, s_rate, n_cycles)
    /\ return_spectrum \in BOOLEAN
    /\ x \in SignalsOver(SampleVals, 1, MaxLen)
    /\ Start

(* lines 44-48 *)
MakeFreqs ==
    /\ pc = "arange"
    /\ freqs' = Freqs(f_range, f_step)
    /\ lcs' = Zeros(Len(freqs'))
    /\ ind' = 0
    /\ pc' = "loop"
    /\ UNCHANGED << args, frame, ret, calls >>

\* NextFreq with a fault: the frequencies are taken from the high end
NextFreqReversed(fs, i) == fs[Len(fs) - i]

(* line 49: the frequency enumerate(freqs) yields at index i (0-based) *)
NextFreq(fs, i) == fs[i + 1]

EstimatorRaises(sig, freq, s, n) ==
    IF NSampsRaises(n, s, freq) THEN TRUE
    ELSE ChunksRaises(sig, NSamps(n, s, freq))

(* lines 49-51, one turn of the loop: the call of _lagged_coherence_1freq  *)
(* (lines 66-85, its locals kept in the frame) and the store into lcs[ind] *)
Estimate ==
    /\ pc = "loop"
    /\ ind < Len(freqs)
    /\ f' = NextFreq(freqs, ind)
    /\ calls' = Append(calls, [x |-> x, f |-> f', s_rate |-> s_rate,
                               n_cycles |-> n_cycles])
    /\ ~EstimatorRaises(x, f', s_rate, n_cycles)
    /\ n_samps' = NSamps(n_cycles, s_rate, f')
    /\ chunks' = NonoverlappingChunks(x, n_samps')
    /\ fourier_f_idx' = FourierFIdx(n_samps', s_rate, f')
    /\ fourier_coes' = FourierCoes(chunks', fourier_f_idx')
    /\ lcs_num' = LcsNum(fourier_coes')
    /\ lcs_denom2' = LcsDenom2(fourier_coes')
    /\ lcs' = [lcs EXCEPT ![ind + 1] = AbsRatio(lcs_num', lcs_denom2')]
    /\ ind' = ind + 1
    /\ UNCHANGED << args, pc, freqs, ret >>

(* the same turn when the estimator raises: at line 66 for f = 0, inside   *)
(* _nonoverlapping_chunks (line 91 or 92) for a window length <= 0         *)
EstimateRaise ==
    /\ pc = "loop"
    /\ ind < Len(freqs)
    /\ f' = NextFreq(freqs, ind)
    /\ calls' = Append(calls, [x |-> x, f |-> f', s_rate |-> s_rate,
                               n_cycles |-> n_cycles])
    /\ EstimatorRaises(x, f', s_rate, n_cycles)
    /\ ret' = [kind |-> "error",
               line |-> IF NSampsRaises(n_cycles, s_rate, f') THEN 66
                        ELSE IF NSamps(n_cycles, s_rate, f') = 0 THEN 91
                        ELSE 92]
    /\ pc' = "raised"
    /\ UNCHANGED << args, freqs, lcs, ind, n_samps, chunks, fourier_f_idx,
                    fourier_coes, lcs_num, lcs_denom2 >>

(* lines 54-56 *)
ReturnSpectrum ==
    /\ pc = "loop"
    /\ ind >= Len(freqs)
    /\ return_spectrum
    /\ ret' = [kind |-> "spectrum", lc |-> lcs, freqs |-> freqs]
    /\ pc' = "done"
    /\ UNCHANGED << args, freqs, lcs, ind, frame, calls >>

(* lines 57-59 *)
ReturnMean ==
    /\ pc = "loop"
    /\ ind >= Len(freqs)
    /\ ~return_spectrum
    /\ ret' = [kind |-> "mean", lc |-> Mean(lcs)]
    /\ pc' = "done"
    /\ UNCHANGED << args, freqs, lcs, ind, frame, calls >>

Next ==
    \/ MakeFreqs
    \/ Estimate
    \/ EstimateRaise
    \/ ReturnSpectrum
    \/ ReturnMean

Spec == Init /\ [][Next]_vars

---------------------------------------------------------------------------
(* Single-frequency calls: f_range = (f, f) and f_step = 1 make the sweep  *)
(* the one frequency f, over a wider choice of rates and cycle counts.     *)

InitEst ==
    /\ \E freq \in 1..MaxFreq : f_range = << freq, freq >>
    /\ f_step = 1
    /\ s_rate \in 1..MaxRate
    /\ n_cycles \in 1..MaxCycles
    /\ ExactSweep(f_range, f_step, s_rate, n_cycles)
    /\ return_spectrum = TRUE
    /\ x \in SignalsOver(SampleVals, 1, MaxLen)
    /\ Start

NextEst ==
    \/ MakeFreqs
    \/ Estimate
    \/ ReturnSpectrum

SpecEst == InitEst /\ [][NextEst]_vars

---------------------------------------------------------------------------
(* The window length and the DFT bin alone (lines 66-73), which need no    *)
(* Fourier coefficient, over every rate and frequency up to MaxBinRate.    *)

InitBin ==
    /\ x \in SignalsOver({0}, 1, MaxLen)
    /\ f \in 1..MaxBinRate
    /\ s_rate \in 1..MaxBinRate
    /\ n_cycles \in 1..MaxCycles
    /\ f_range = << f, f >>
    /\ f_step = 1
    /\ return_spectrum = TRUE
    /\ pc = "n_samps"
    /\ freqs = << f >>
    /\ lcs = Zeros(1)
    /\ ind = 0
    /\ n_samps = 0
    /\ chunks = << >>
    /\ fourier_f_idx = 0
    /\ fourier_coes = << >>
    /\ lcs_num = << 0, 0 >>
    /\ lcs_denom2 = 0
    /\ ret = [kind |-> "none"]
    /\ calls = << [x |-> x, f |-> f, s_rate |-> s_rate,
                   n_cycles |-> n_cycles] >>

(* lines 66-73 *)
WindowAndBin ==
    /\ pc = "n_samps"
    /\ n_samps' = NSamps(n_cycles, s_rate, f)
    /\ chunks' = NonoverlappingChunks(x, n_samps')
    /\ fourier_f_idx' = FourierFIdx(n_samps', s_rate, f)
    /\ pc' = "coefs"
    /\ UNCHANGED << args, freqs, lcs, ind, f, fourier_coes, lcs_num,
                    lcs_denom2, ret, calls >>

SpecBin == InitBin /\ [][WindowAndBin]_vars

---------------------------------------------------------------------------
(* _nonoverlapping_chunks(x, N) alone, for every chunk length N >= 1       *)

InitChunks ==
    /\ x \in SignalsOver(SampleVals, 1, MaxLen)
    /\ n_samps \in 1..MaxChunkLen
    /\ f = 1
    /\ s_rate = n_samps
    /\ n_cycles = 1
    /\ f_range = << 1, 1 >>
    /\ f_step = 1
    /\ return_spectrum = TRUE
    /\ pc = "chunks"
    /\ freqs = << 1 >>
    /\ lcs = Zeros(1)
    /\ ind = 0
    /\ chunks = << >>
    /\ fourier_f_idx = 0
    /\ fourier_coes = << >>
    /\ lcs_num = << 0, 0 >>
    /\ lcs_denom2 = 0
    /\ ret = [kind |-> "none"]
    /\ calls = << [x |-> x, f |-> f, s_rate |-> s_rate,
                   n_cycles |-> n_cycles] >>

(* line 69 *)
Chunking ==
    /\ pc = "chunks"
    /\ chunks' = NonoverlappingChunks(x, n_samps)
    /\ pc' = "bin"
    /\ UNCHANGED << args, freqs, lcs, ind, f, n_samps, fourier_f_idx,
                    fourier_coes, lcs_num, lcs_denom2, ret, calls >>

SpecChunks == InitChunks /\ [][Chunking]_vars

---------------------------------------------------------------------------
(* Properties *)

Low == f_range[1]
High == f_range[2]

\* what the estimator returns for sweep frequency i
ValueAt(i) ==
    LaggedCoherence1Freq(x, Freqs(f_range, f_step)[i], s_rate, n_cycles)

\* the number of chunks the signal yields for sweep frequency i
ChunksAt(i) ==
    Len(x) \div NSamps(n_cycles, s_rate, Freqs(f_range, f_step)[i])

ValidCall ==
    /\ Low <= High
    /\ Low > 0
    /\ s_rate > 0

\* v is the mean of the integers g[1..n], rounded down
IsMeanOf(v, g, n) ==
    /\ n > 0
    /\ n * v <= SumTo(g, n)
    /\ SumTo(g, n) < n * (v + 1)

(* C1: for low <= high the evaluated frequencies are low, low+step, ...,   *)
(* up to the last such value <= high; none exceeds high.                   *)
C1_FreqsWithinRange ==
    (pc # "arange" /\ ValidCall) =>
        /\ Len(freqs) >= 1
        /\ \A i \in 1..Len(freqs) :
               freqs[i] = Low + (i - 1) * f_step /\ freqs[i] <= High
        /\ freqs[Len(freqs)] + f_step > High

(* C3: the scalar-mode result is the mean of the spectrum-mode values of   *)
(* the same arguments; spectrum mode returns one value per frequency,      *)
(* value i being the estimator's result for frequency i.                   *)
C3_MeanOfSpectrum ==
    pc = "done" =>
        LET fs == Freqs(f_range, f_step)
            n == Len(fs)
        IN  IF return_spectrum
            THEN /\ ret.freqs = fs
                 /\ Len(ret.lc) = Len(ret.freqs)
                 /\ \A i \in 1..n : ret.lc[i] = ValueAt(i)
            ELSE /\ ret.lc.nan <=> (n = 0 \/ \E i \in 1..n : ValueAt(i).nan)
                 /\ ~ret.lc.nan =>
                        IsMeanOf(ret.lc.v, [i \in 1..n |-> ValueAt(i).v], n)

C3_Witness ==
    /\ pc = "done"
    /\ ~return_spectrum
    /\ ~ret.lc.nan
    /\ Len(freqs) >= 2
    /\ lcs[1] # lcs[2]
    /\ ret.lc.v # lcs[1].v
    /\ ret.lc.v # lcs[2].v

(* C4: every per-frequency value of a valid call lies in [0, 1] (stated    *)
(* here for the frequencies at which the signal yields two chunks or more).*)
C4_UnitInterval ==
    ValidCall =>
        \A i \in 1..ind :
            ChunksAt(i) >= 2 =>
                (~lcs[i].nan /\ lcs[i].v >= 0 /\ lcs[i].v <= Unit)

(* C5: a call with low > high, with an evaluated frequency <= 0 or with    *)
(* s_rate <= 0 returns no value; it is rejected before a chunk is cut or   *)
(* a frequency is completed.                                               *)
InvalidCall ==
    \/ Low > High
    \/ s_rate <= 0
    \/ \E i \in 1..Len(Freqs(f_range, f_step)) :
           Freqs(f_range, f_step)[i] <= 0

C5_InvalidRejected ==
    InvalidCall =>
        /\ pc # "done"
        /\ pc = "raised" => (ind = 0 /\ chunks = << >>)

(* C6: in scalar mode, when some frequencies of the sweep are degenerate   *)
(* (NaN: fewer than two chunks or a zero denominator) and others are not,  *)
(* a returned mean is the mean of the non-degenerate values only.          *)
RECURSIVE SumGood(_, _)
SumGood(a, n) ==
    IF n = 0 THEN 0
    ELSE (IF a[n].nan THEN 0 ELSE a[n].v) + SumGood(a, n - 1)

C6_MeanNotCorrupted ==
    ( /\ pc = "done"
      /\ ~return_spectrum
      /\ \E i \in 1..Len(lcs) : lcs[i].nan
      /\ \E i \in 1..Len(lcs) : ~lcs[i].nan ) =>
        LET k == Cardinality({i \in 1..Len(lcs) : ~lcs[i].nan})
        IN  /\ ~ret.lc.nan
            /\ k * ret.lc.v <= SumGood(lcs, Len(lcs))
            /\ SumGood(lcs, Len(lcs)) < k * (ret.lc.v + 1)

(* C7: every frequency for which the signal yields fewer than two chunks   *)
(* (none, or one) gets the same kind of outcome: NaN, never a raised       *)
(* failure; the estimator raises only for f <= 0 or s_rate <= 0.           *)
C7_FewChunksAllNaN ==
    /\ \A i \in 1..ind :
           (freqs[i] > 0 /\ s_rate > 0 /\ ChunksAt(i) < 2) => lcs[i].nan
    /\ pc = "raised" => (f <= 0 \/ s_rate <= 0)

C7_Witness ==
    /\ pc = "done"
    /\ s_rate > 0
    /\ \E i \in 1..ind, j \in 1..ind :
           /\ freqs[i] > 0
           /\ ChunksAt(i) = 0
           /\ ChunksAt(j) = 1
           /\ FourierCoes(NonoverlappingChunks(x,
                  NSamps(n_cycles, s_rate, freqs[j])),
                  FourierFIdx(NSamps(n_cycles, s_rate, freqs[j]), s_rate,
                              freqs[j]))[1] # << 0, 0 >>
           /\ lcs[i].nan
           /\ lcs[j].nan

(* C8: the estimator is invoked once per frequency, in increasing          *)
(* frequency order, each time with the unmodified signal, sampling rate    *)
(* and n_cycles, and each stored result is the estimator's value for that  *)
(* frequency and those arguments alone.                                    *)
C8_OncePerFrequencyInOrder ==
    /\ pc \in {"loop", "done"} =>
           /\ Len(calls) = ind
           /\ \A i \in 1..ind :
                  /\ calls[i].f = Low + (i - 1) * f_step
                  /\ calls[i].x = x
                  /\ calls[i].s_rate = s_rate
                  /\ calls[i].n_cycles = n_cycles
                  /\ lcs[i] = ValueAt(i)
           /\ \A i \in 1..(ind - 1) : calls[i].f < calls[i + 1].f
    /\ pc = "done" => ind = Len(Freqs(f_range, f_step))

C8_Witness ==
    /\ pc = "done"
    /\ Len(calls) >= 3
    /\ \E i \in 1..ind, j \in 1..ind : lcs[i] # lcs[j]

(* C2: _nonoverlapping_chunks(x, N) returns floor(L/N) chunks of N samples,*)
(* chunk i holding x[i*N .. i*N+N-1] in order; the tail is dropped and     *)
(* N > L gives no chunk.                                                   *)
C2_ChunksPartition ==
    pc = "bin" =>
        LET L == Len(x)
            N == n_samps
            C == Len(chunks)
        IN  /\ C >= 0
            /\ C * N <= L
            /\ L < (C + 1) * N
            /\ N > L => C = 0
            /\ \A i \in 1..C :
                   /\ Len(chunks[i]) = N
                   /\ \A j \in 1..N : chunks[i][j] = x[(i - 1) * N + j]

C2_Witness ==
    /\ pc = "bin"
    /\ n_samps = 3
    /\ Len(chunks) = 2
    /\ Len(x) = 8
    /\ chunks[1] = << 0, 1, 1 >>
    /\ chunks[2] = << 1, 0, 0 >>

(* C9: for f, s_rate, n_cycles > 0 the estimator uses the window length    *)
(* N = ceil(n_cycles * s_rate / f), cuts C = floor(L / N) chunks of that   *)
(* length and sums the adjacent-pair products F[i] * conj(F[i+1]) for      *)
(* i = 0..C-2 (C-1 of them when there is a chunk at all).                  *)
PairRe(F, i) == F[i][1] * F[i + 1][1] + F[i][2] * F[i + 1][2]
PairIm(F, i) == F[i][2] * F[i + 1][1] - F[i][1] * F[i + 1][2]

C9_WindowChunksPairs ==
    (pc \in {"loop", "done"} /\ ind = 1) =>
        LET L == Len(x)
            N == n_samps
            C == Len(chunks)
            F == fourier_coes
            P == IF C >= 1 THEN C - 1 ELSE 0
        IN  /\ N * f >= n_cycles * s_rate
            /\ (N - 1) * f < n_cycles * s_rate
            /\ C * N <= L
            /\ L < (C + 1) * N
            /\ \A i \in 1..C : Len(chunks[i]) = N
            /\ Len(F) = C
            /\ lcs_num[1] = SumTo([i \in 1..P |-> PairRe(F, i)], P)
            /\ lcs_num[2] = SumTo([i \in 1..P |-> PairIm(F, i)], P)

C9_Witness ==
    /\ pc = "done"
    /\ ind = 1
    /\ (n_cycles * s_rate) % f # 0
    /\ Len(chunks) >= 3
    /\ lcs_num # << 0, 0 >>
    /\ fourier_coes[Len(chunks)] # << 0, 0 >>

(* C10: for 0 < f < s_rate/2 the selected DFT bin is the bin n_cycles, and *)
(* it is the only bin at minimal distance from f.                          *)
SignedBin(N, j) == IF 2 * j <= N - 1 THEN j ELSE j - N
GridDist(N, j) == Abs(SignedBin(N, j) * s_rate - f * N)

C10_BinIsNCycles ==
    (pc = "coefs" /\ 2 * f < s_rate) =>
        /\ fourier_f_idx = n_cycles
        /\ \A j \in 0..(n_samps - 1) :
               j # fourier_f_idx =>
                   GridDist(n_samps, j) > GridDist(n_samps, fourier_f_idx)

C10_Witness ==
    /\ pc = "coefs"
    /\ 2 * f < s_rate
    /\ n_cycles = 3
    /\ (n_cycles * s_rate) % f # 0
    /\ fourier_f_idx = 3
    /\ n_samps > 8

TypeOK == pc \in {"arange", "loop", "n_samps", "chunks", "bin", "coefs",
                  "done", "raised"}
=============================================================================
